---- MODULE Spec2Model ----
(***************************************************************************)
(* The area / areas model and the layout value of the layouting engine     *)
(* (src/src/layout/mod.rs).                                                *)
(*                                                                         *)
(* Lengths are f64 in the source.  They are modelled on a fixed-point grid *)
(* of Unit ticks per EPS (EPS = 1e-4 is the tolerance of Area::place), so  *)
(* that lengths below EPS, equal to EPS and far above EPS all exist.       *)
(* A length has a significand of MantBits bits: sums and differences are   *)
(* rounded to the nearest representable length, ties to even, as f64       *)
(* rounds them; min, max and comparisons are exact.                        *)
(***************************************************************************)
EXTENDS Integers, Sequences, FiniteSets, TLC

\* ------------------------------------------------------------------ bounds
Unit == 2          \* grid ticks per EPS
MaxAreas == 3      \* longest area supply handed to Areas::new
MaxCalls == 5      \* next() calls followed on one supply
MaxOps == 2        \* place / shrink operations followed on one area
MaxLines == 3      \* line commits followed on one area
MaxPage == 3       \* largest small page side, in ticks
MaxDim == 4        \* largest small box side, in ticks
MaxBy == 2         \* largest small shrink amount, in ticks
MaxElems == 2      \* most elements of an embedded layout
MaxLen == 4        \* most elements of the receiving layout
MaxNodes == 3      \* most nodes of a syntax tree
MaxLoads == 1      \* most font loads one shape call suspends on
MantBits == 26     \* bits of the significand of a length
MaxTakes == 3      \* next() calls followed while the returned areas are worked on

VARIABLES
    vec,        \* Areas.vec: the remaining supply
    overflow,   \* Areas.overflow
    vec0,       \* history: the vector the supply was created with
    returned,   \* history: the results of the next() calls so far, in order
    area,       \* the Area that place / shrink_by / shrink_to act on
    area0,      \* history: that area as it was constructed
    pre,        \* history: the area before the last operation on it
    last,       \* history: the last operation on the area, its arguments and result
    committed,  \* history: the sum of the committed line heights
    nops,       \* history: the number of operations on the area so far
    lay,        \* the Layout that push / push_layout act on
    layPre,     \* history: the layout before the last operation on it
    layLast,    \* history: the last operation on the layout and its arguments
    lastPrev,   \* history: the operation on the area before the last one
    memo,       \* history: one earlier place call kept for comparison
    tree,       \* the syntax tree handed to layout()
    borrowed,   \* the font loader's borrow flag: the invocation holding it, or 0
    pc,         \* per invocation: where layout() stands
    idx,        \* per invocation: the position of the `for node in tree` loop
    loads,      \* per invocation: font loads the current shape call suspended on
    items,      \* per invocation: the items passed to stack.layout_item, in order
    finished,   \* per invocation: history of stack.finish() calls
    result      \* per invocation: what layout() returned

vars == <<vec, overflow, vec0, returned, area, area0, pre, last, committed, nops,
          lay, layPre, layLast, lastPrev, memo,
          tree, borrowed, pc, idx, loads, items, finished, result>>
histVars == <<lastPrev, memo>>
drvVars == <<tree, borrowed, pc, idx, loads, items, finished, result>>
areasVars == <<vec, overflow, vec0, returned>>
areaVars == <<area, area0, pre, last, committed, nops>>
layVars == <<lay, layPre, layLast>>

\* ------------------------------------------------------------- primitives
None == [some |-> FALSE]
Some(v) == [some |-> TRUE, val |-> v]

Min(a, b) == IF a <= b THEN a ELSE b
Max(a, b) == IF a >= b THEN a ELSE b

\* the least magnitude at which the spacing of lengths doubles
Mant == 2 ^ MantBits
Abs(x) == IF x < 0 THEN -x ELSE x
\* the spacing of the representable lengths around magnitude n
RECURSIVE Ulp(_)
Ulp(n) == IF n < Mant THEN 1 ELSE 2 * Ulp(n \div 2)
\* f64 rounding: the nearest representable length, ties to the even significand
fl(x) ==
    LET n == Abs(x)
        u == Ulp(n)
        q == n \div u
        r == n % u
        m == IF 2 * r > u \/ (2 * r = u /\ q % 2 = 1) THEN (q + 1) * u ELSE q * u
    IN  IF x < 0 THEN -m ELSE m
\* f64 + and -
fadd(a, b) == fl(a + b)
fsub(a, b) == fl(a - b)

\* const EPS: f64 = 1e-4, in ticks
EPS == Unit
\* the length 1.0, in ticks
One == 10000 * Unit

Point_new(x, y) == [x |-> x, y |-> y]
Size_new(w, h) == [width |-> w, height |-> h]
Dim_new(w, h, d) == [width |-> w, height |-> h, depth |-> d]
Rect_new(x0, y0, x1, y1) == [x0 |-> x0, y0 |-> y0, x1 |-> x1, y1 |-> y1]

Rect_width(r) == fsub(r.x1, r.x0)
Rect_height(r) == fsub(r.y1, r.y0)
\* Size::to_rect: the rectangle from the origin to the size
to_rect(s) == Rect_new(0, 0, s.width, s.height)
\* Rect::inset: shrink all four sides, clamped to degenerate but non-negative
inset(r, m) ==
    LET x0 == Min(r.x0 + m.left, r.x1)
        y0 == Min(r.y0 + m.top, r.y1)
    IN  Rect_new(x0, y0, Max(r.x1 - m.right, x0), Max(r.y1 - m.bottom, y0))

Sides == {"Left", "Top", "Right", "Bottom"}
Overflows == {"Stop", "Spill"}

\* ------------------------------------------------------------------ pages
Margins(m) == [left |-> m, top |-> m, right |-> m, bottom |-> m]
Page(w, h, m) == [size |-> Size_new(w, h), margins |-> Margins(m)]

\* the page of the end-to-end scenarios: 100 x 100, margins 10
S1Page == Page(100 * One, 100 * One, 10 * One)
\* the shaped "Hi" of scenario S1: dim {10, 8, 2}
S1Dim == Dim_new(10 * One, 8 * One, 2 * One)

SmallPages ==
    {Page(w, h, m) : w \in (MaxPage - 1)..MaxPage, h \in (MaxPage - 1)..MaxPage, m \in 0..1}
Pages == SmallPages \cup {S1Page}

\* layout(): the area built from state.style.page
layout_area(page) ==
    [size |-> page.size, usable |-> inset(to_rect(page.size), page.margins), shape |-> None]

PageAreas == {layout_area(p) : p \in Pages}
\* an area whose shape is present (the fields of Area are public)
ShapedAreas == {[a EXCEPT !.shape = Some("group")] : a \in PageAreas}

\* ------------------------------------------------------------------ Areas
Areas_new(v, o) == [vec |-> v, overflow |-> o]

\* faults of next(): Spill ignored; `&&` for `||`; the back removed instead of the front
next_drain(v, o) ==
    IF Len(v) = 0
    THEN [ret |-> None, vec |-> v]
    ELSE [ret |-> Some(Head(v)), vec |-> Tail(v)]
next_and(v, o) ==
    IF Len(v) = 0
    THEN [ret |-> None, vec |-> v]
    ELSE IF Len(v) > 1 /\ o = "Stop"
         THEN [ret |-> Some(Head(v)), vec |-> Tail(v)]
         ELSE [ret |-> Some(v[1]), vec |-> v]
next_back(v, o) ==
    IF Len(v) = 0
    THEN [ret |-> None, vec |-> v]
    ELSE IF Len(v) > 1 \/ o = "Stop"
         THEN [ret |-> Some(v[Len(v)]), vec |-> SubSeq(v, 1, Len(v) - 1)]
         ELSE [ret |-> Some(v[1]), vec |-> v]

\* fault of next(): the last area under Spill is moved out and an empty one left
next_take(v, o) ==
    IF Len(v) = 0
    THEN [ret |-> None, vec |-> v]
    ELSE IF Len(v) > 1 \/ o = "Stop"
         THEN [ret |-> Some(Head(v)), vec |-> Tail(v)]
         ELSE [ret |-> Some(v[1]), vec |-> <<[v[1] EXCEPT !.usable = Rect_new(0, 0, 0, 0)]>>]

next(v, o) ==
    IF Len(v) = 0
    THEN [ret |-> None, vec |-> v]
    ELSE IF Len(v) > 1 \/ o = "Stop"
         THEN [ret |-> Some(Head(v)), vec |-> Tail(v)]
         ELSE [ret |-> Some(v[1]), vec |-> v]

\* the areas a supply is made of: three pages that differ in size
SupplyAreas ==
    {layout_area(S1Page), layout_area(Page(MaxPage, MaxPage, 1)),
     layout_area(Page(MaxPage, MaxPage - 1, 0))}
Supplies == UNION {[1..n -> SupplyAreas] : n \in 0..MaxAreas}

IdleArea == layout_area(S1Page)
IdleLast == [op |-> "new"]
AreaIdle ==
    /\ area = IdleArea /\ area0 = IdleArea /\ pre = IdleArea
    /\ last = IdleLast /\ committed = 0 /\ nops = 0
IdleLay == [dim |-> Dim_new(0, 0, 0), elements |-> <<>>]
LayIdle == lay = IdleLay /\ layPre = IdleLay /\ layLast = [op |-> "new"]
AreasIdle ==
    /\ vec = <<>> /\ overflow = "Stop" /\ vec0 = <<>> /\ returned = <<>>
HistIdle == lastPrev = IdleLast /\ memo = None
\* the invocations of layout() followed
Invs == {1, 2}
DrvIdle ==
    /\ tree = <<>> /\ borrowed = 0
    /\ pc = [i \in Invs |-> "idle"]
    /\ idx = [i \in Invs |-> 1]
    /\ loads = [i \in Invs |-> 0]
    /\ items = [i \in Invs |-> <<>>]
    /\ finished = [i \in Invs |-> <<>>]
    /\ result = [i \in Invs |-> None]

InitAreas ==
    /\ \E v \in Supplies, o \in Overflows :
          LET s == Areas_new(v, o)
          IN  vec = s.vec /\ overflow = s.overflow /\ vec0 = v
    /\ returned = <<>>
    /\ AreaIdle
    /\ LayIdle
    /\ HistIdle
    /\ DrvIdle

CallNext ==
    /\ Len(returned) < MaxCalls
    /\ LET r == next(vec, overflow)
       IN  /\ vec' = r.vec
           /\ returned' = Append(returned, r.ret)
    /\ UNCHANGED <<overflow, vec0, areaVars, layVars, histVars, drvVars>>

NextAreas == CallNext
SpecAreas == InitAreas /\ [][NextAreas]_vars

\* C1: a supply created with at least one area under Spill returns an area from
\* every next() call, never none, and never becomes empty.
C1_SpillNeverNone ==
    (overflow = "Spill" /\ Len(vec0) >= 1) =>
        /\ \A k \in 1..Len(returned) : returned[k].some
        /\ Len(vec) >= 1
\* the single-area supply of the driver after three next() calls
C1_Witness ==
    /\ overflow = "Spill" /\ vec0 = <<layout_area(S1Page)>>
    /\ Len(returned) >= 3 /\ returned[3] = Some(layout_area(S1Page))

\* C2: under Stop a supply of n areas returns them in their original order on the
\* first n calls, each once, and none on every later call.
C2_StopDrains ==
    overflow = "Stop" =>
        /\ \A k \in 1..Len(returned) :
              returned[k] = IF k <= Len(vec0) THEN Some(vec0[k]) ELSE None
        /\ vec = SubSeq(vec0, Min(Len(returned), Len(vec0)) + 1, Len(vec0))
\* two areas drained, then none twice
C2_Witness ==
    /\ overflow = "Stop" /\ Len(vec0) = 2 /\ vec0[1] # vec0[2]
    /\ Len(returned) >= 4 /\ ~returned[3].some /\ ~returned[4].some

\* C3: next() removes and returns the front area, except that the last area under
\* Spill stays: under Spill with areas a1..an the results are a1, ..., an, an, ...
\* and the stored areas decrease by one per call down to 1 and stay 1.
C3_SpillSequence ==
    LET n == Len(vec0)
        calls == Len(returned)
    IN  /\ \A k \in 1..Min(calls, n) : returned[k] = Some(vec0[k])
        /\ (overflow = "Spill" /\ n >= 1) =>
              /\ \A k \in 1..calls : returned[k] = Some(vec0[Min(k, n)])
              /\ Len(vec) = Max(n - calls, 1)
              /\ vec = SubSeq(vec0, Min(calls, n - 1) + 1, n)
\* three distinct areas, then the last one again twice
C3_Witness ==
    /\ overflow = "Spill" /\ Len(vec0) = 3 /\ vec0[2] # vec0[3]
    /\ Len(returned) >= 5 /\ returned[5] = Some(vec0[3]) /\ Len(vec) = 1

\* ------------------------------------------------------------------- Area
Panicked == [panic |-> TRUE]
Returned(opt) == [panic |-> FALSE, ret |-> opt]

\* faults of place(): `>=` for `>`; the baseline offset dropped; the asserts dropped
place_ge(a, dim, side) ==
    IF side # "Top"
    THEN Panicked
    ELSE IF a.shape # None
         THEN Panicked
         ELSE IF /\ fadd(Rect_width(a.usable), EPS) >= dim.width
                 /\ fadd(Rect_height(a.usable), EPS) >= fadd(dim.height, dim.depth)
              THEN Returned(Some(Point_new(a.usable.x0, fadd(a.usable.y0, dim.height))))
              ELSE Returned(None)
place_top(a, dim, side) ==
    IF side # "Top"
    THEN Panicked
    ELSE IF a.shape # None
         THEN Panicked
         ELSE IF /\ fadd(Rect_width(a.usable), EPS) > dim.width
                 /\ fadd(Rect_height(a.usable), EPS) > fadd(dim.height, dim.depth)
              THEN Returned(Some(Point_new(a.usable.x0, a.usable.y0)))
              ELSE Returned(None)
place_noassert(a, dim, side) ==
    IF /\ fadd(Rect_width(a.usable), EPS) > dim.width
       /\ fadd(Rect_height(a.usable), EPS) > fadd(dim.height, dim.depth)
    THEN Returned(Some(Point_new(a.usable.x0, fadd(a.usable.y0, dim.height))))
    ELSE Returned(None)

place(a, dim, side) ==
    IF side # "Top"
    THEN Panicked
    ELSE IF a.shape # None
         THEN Panicked
         ELSE IF /\ fadd(Rect_width(a.usable), EPS) > dim.width
                 /\ fadd(Rect_height(a.usable), EPS) > fadd(dim.height, dim.depth)
              THEN Returned(Some(Point_new(a.usable.x0, fadd(a.usable.y0, dim.height))))
              ELSE Returned(None)

\* fault of shrink_by(): the clamp against the opposite edge dropped
shrink_by_noclamp(a, by, side) ==
    CASE side = "Left" -> [a EXCEPT !.usable.x0 = fadd(a.usable.x0, by)]
      [] side = "Right" -> [a EXCEPT !.usable.x1 = fsub(a.usable.x1, by)]
      [] side = "Top" -> [a EXCEPT !.usable.y0 = fadd(a.usable.y0, by)]
      [] side = "Bottom" -> [a EXCEPT !.usable.y1 = fsub(a.usable.y1, by)]

\* fault of shrink_by(): the opposite edge moved inward as well
shrink_by_inset(a, by, side) ==
    CASE side \in {"Left", "Right"} ->
            [a EXCEPT !.usable.x0 = Min(fadd(a.usable.x0, by), a.usable.x1),
                      !.usable.x1 = Max(fsub(a.usable.x1, by), a.usable.x0)]
      [] side \in {"Top", "Bottom"} ->
            [a EXCEPT !.usable.y0 = Min(fadd(a.usable.y0, by), a.usable.y1),
                      !.usable.y1 = Max(fsub(a.usable.y1, by), a.usable.y0)]

\* fault of shrink_by(): the edge moved outward
shrink_by_outward(a, by, side) ==
    CASE side = "Left" -> [a EXCEPT !.usable.x0 = Min(fsub(a.usable.x0, by), a.usable.x1)]
      [] side = "Right" -> [a EXCEPT !.usable.x1 = Max(fadd(a.usable.x1, by), a.usable.x0)]
      [] side = "Top" -> [a EXCEPT !.usable.y0 = Min(fsub(a.usable.y0, by), a.usable.y1)]
      [] side = "Bottom" -> [a EXCEPT !.usable.y1 = Max(fadd(a.usable.y1, by), a.usable.y0)]

shrink_by(a, by, side) ==
    CASE side = "Left" -> [a EXCEPT !.usable.x0 = Min(fadd(a.usable.x0, by), a.usable.x1)]
      [] side = "Right" -> [a EXCEPT !.usable.x1 = Max(fsub(a.usable.x1, by), a.usable.x0)]
      [] side = "Top" -> [a EXCEPT !.usable.y0 = Min(fadd(a.usable.y0, by), a.usable.y1)]
      [] side = "Bottom" -> [a EXCEPT !.usable.y1 = Max(fsub(a.usable.y1, by), a.usable.y0)]

shrink_to(a, to, side) ==
    CASE side = "Left" -> [a EXCEPT !.usable.x0 = Min(to, a.usable.x1)]
      [] side = "Right" -> [a EXCEPT !.usable.x1 = Max(to, a.usable.x0)]
      [] side = "Top" -> [a EXCEPT !.usable.y0 = Min(to, a.usable.y1)]
      [] side = "Bottom" -> [a EXCEPT !.usable.y1 = Max(to, a.usable.y0)]

\* the boxes asked for: every small box and the shaped "Hi" of scenario S1
Dims ==
    {Dim_new(w, h, d) : w \in 0..MaxDim, h \in 0..MaxDim, d \in 0..1} \cup {S1Dim}
\* a length far beyond any page
Far == 200 * One
\* shrink amounts: small ones of either sign, and ones larger than any extent
Bys == (-MaxBy..MaxBy) \cup {-Far, Far}
\* shrink targets: around the small pages, inside the scenario page, far outside
Tos == (-1..(MaxPage + 1)) \cup {-Far, 50 * One, Far}

InitArea(S) ==
    /\ area \in S
    /\ area0 = area /\ pre = area
    /\ last = IdleLast /\ committed = 0 /\ nops = 0
    /\ AreasIdle
    /\ LayIdle
    /\ HistIdle
    /\ DrvIdle

PlaceStep ==
    /\ nops < MaxOps
    /\ \E dim \in Dims, side \in Sides :
          last' = [op |-> "place", dim |-> dim, side |-> side,
                   res |-> place(area, dim, side)]
    /\ pre' = area
    /\ nops' = nops + 1
    /\ UNCHANGED <<area, area0, committed, areasVars, layVars, drvVars>>
CallPlace == PlaceStep /\ UNCHANGED histVars

ShrinkByStep(S) ==
    /\ nops < MaxOps
    /\ \E by \in S, side \in Sides :
          /\ area' = shrink_by(area, by, side)
          /\ last' = [op |-> "shrink_by", by |-> by, side |-> side]
    /\ pre' = area
    /\ nops' = nops + 1
    /\ UNCHANGED <<area0, committed, areasVars, layVars, drvVars>>
CallShrinkBy(S) == ShrinkByStep(S) /\ UNCHANGED histVars

CallShrinkTo(S) ==
    /\ nops < MaxOps
    /\ \E to \in S, side \in Sides :
          /\ area' = shrink_to(area, to, side)
          /\ last' = [op |-> "shrink_to", to |-> to, side |-> side]
    /\ pre' = area
    /\ nops' = nops + 1
    /\ UNCHANGED <<area0, committed, areasVars, layVars, histVars, drvVars>>

\* one line commit of the stack layouter: a successful place(dim, Top) followed
\* by shrink_by(dim.height + dim.depth, Top) on the same area
Commit ==
    /\ nops < MaxLines
    /\ \E dim \in Dims :
          LET r == place(area, dim, "Top")
              total == fadd(dim.height, dim.depth)
          IN  /\ ~r.panic /\ r.ret.some
              /\ area' = shrink_by(area, total, "Top")
              /\ committed' = committed + total
              /\ last' = [op |-> "commit", dim |-> dim, side |-> "Top", res |-> r]
    /\ pre' = area
    /\ nops' = nops + 1
    /\ UNCHANGED <<area0, areasVars, layVars, histVars, drvVars>>

InitShrink == InitArea(PageAreas)
NextShrink == CallShrinkBy(Bys) \/ CallShrinkTo(Tos)
SpecShrink == InitShrink /\ [][NextShrink]_vars

InitPlace == InitArea(PageAreas \cup ShapedAreas)
NextPlace == CallPlace \/ CallShrinkBy({1, 10 * One})
SpecPlace == InitPlace /\ [][NextPlace]_vars

InitCommit == InitArea(PageAreas)
NextCommit == Commit
SpecCommit == InitCommit /\ [][NextCommit]_vars

\* the last operation was place(dim, Top) on a rectangular area
PlacedTop == last.op = "place" /\ last.side = "Top" /\ pre.shape = None

\* C4 as stated: on a rectangular area place(dim, Top) returns a point exactly when
\* usable.width + EPS >= dim.width and usable.height + EPS >= dim.height + dim.depth,
\* equality included.
C4_FitNonStrict ==
    PlacedTop =>
        /\ ~last.res.panic
        /\ last.res.ret.some <=>
              /\ (pre.usable.x1 - pre.usable.x0) + EPS >= last.dim.width
              /\ (pre.usable.y1 - pre.usable.y0) + EPS >= last.dim.height + last.dim.depth
\* C4 as amended: place(dim, Top) returns a point exactly when both comparisons hold
\* strictly; where either side is exactly equal it returns none.
C4_FitStrict ==
    PlacedTop =>
        /\ ~last.res.panic
        /\ last.res.ret.some <=>
              /\ (pre.usable.x1 - pre.usable.x0) + EPS > last.dim.width
              /\ (pre.usable.y1 - pre.usable.y0) + EPS > last.dim.height + last.dim.depth
\* the width is exactly equal, the height fits with room, and place returned none
C4_Witness ==
    /\ PlacedTop
    /\ (pre.usable.x1 - pre.usable.x0) + EPS = last.dim.width
    /\ (pre.usable.y1 - pre.usable.y0) > last.dim.height + last.dim.depth
    /\ last.res = Returned(None)

\* C5: a successful place(dim, Top) returns (usable.x0, usable.y0 + dim.height) of
\* the area's current usable rectangle and leaves the area unchanged; on the
\* 100 x 100 page with margins 10 and dim {10, 8, 2} it returns (10, 18).
C5_PlacePoint ==
    /\ (PlacedTop /\ ~last.res.panic /\ last.res.ret.some) =>
          /\ last.res.ret.val = [x |-> pre.usable.x0, y |-> pre.usable.y0 + last.dim.height]
          /\ area = pre
    /\ (PlacedTop /\ pre = layout_area(S1Page) /\ last.dim = S1Dim) =>
          last.res = Returned(Some([x |-> 10 * One, y |-> 18 * One]))
\* the scenario's box placed on the scenario's page
C5_Witness ==
    /\ PlacedTop /\ pre = layout_area(S1Page) /\ last.dim = S1Dim
    /\ last.res.ret = Some([x |-> 10 * One, y |-> 18 * One])
    /\ area.usable = [x0 |-> 10 * One, y0 |-> 10 * One, x1 |-> 90 * One, y1 |-> 90 * One]

\* C6: place with side Left, Right or Bottom, or on an area whose shape is
\* present, aborts for every dim: no point, no none, and the area is unchanged.
C6_UnsupportedAborts ==
    (last.op = "place" /\ (last.side # "Top" \/ pre.shape # None)) =>
        /\ last.res = Panicked
        /\ area = pre
\* a box that would fit, asked for at the left side of a rectangular area
C6_Witness ==
    /\ last.op = "place" /\ last.side = "Left" /\ pre.shape = None
    /\ last.dim.width <= pre.usable.x1 - pre.usable.x0
    /\ last.dim.height + last.dim.depth <= pre.usable.y1 - pre.usable.y0
    /\ last.res.panic

\* C7: from a non-degenerate usable rectangle, any sequence of shrink_by and
\* shrink_to calls, with any side and any amount, keeps x0 <= x1 and y0 <= y1.
C7_NeverInverts ==
    /\ area.usable.x0 <= area.usable.x1
    /\ area.usable.y0 <= area.usable.y1
\* a shrink by more than the remaining extent, clamped at the opposite edge
C7_Witness ==
    /\ last.op = "shrink_by" /\ last.side = "Left"
    /\ pre.usable.x0 < pre.usable.x1
    /\ last.by > pre.usable.x1 - pre.usable.x0
    /\ area.usable.x0 = area.usable.x1

Contains(outer, inner) ==
    /\ outer.x0 <= inner.x0 /\ inner.x1 <= outer.x1
    /\ outer.y0 <= inner.y0 /\ inner.y1 <= outer.y1

\* C8: every shrink_by and shrink_to call only narrows: the usable rectangle after
\* the call is contained in the one before it, so a usable rectangle that starts
\* inside [0,0]-size stays inside it.
C8_ShrinkNarrows ==
    /\ last.op \in {"shrink_by", "shrink_to"} => Contains(pre.usable, area.usable)
    /\ Contains(to_rect(area0.size), area0.usable) =>
          Contains(to_rect(area.size), area.usable)

\* C9: the sum of the committed line heights (height + depth) on one area never
\* exceeds the area's initial usable height + EPS.
C9_CommittedWithinHeight ==
    committed <= (area0.usable.y1 - area0.usable.y0) + EPS

\* ----------------------------------------------------------------- Layout
\* Point + Vec2, componentwise
Point_add(p, d) == Point_new(fadd(p.x, d.x), fadd(p.y, d.y))

Layout_new(dim) == [dim |-> dim, elements |-> <<>>]

push(l, pos, element) == [l EXCEPT !.elements = Append(@, <<pos, element>>)]

\* the loop of push_layout over the remaining elements of the embedded layout
RECURSIVE push_each(_, _, _)
push_each(l, pos, rest) ==
    IF rest = <<>>
    THEN l
    ELSE push_each(push(l, Point_add(pos, Head(rest)[1]), Head(rest)[2]), pos, Tail(rest))

\* faults of push_layout(): the offset dropped; the embedded layout's dim taken over
push_layout_untranslated(l, pos, layout) == push_each(l, Point_new(0, 0), layout.elements)
push_layout_dim(l, pos, layout) ==
    [push_each(l, pos, layout.elements) EXCEPT !.dim = layout.dim]

push_layout(l, pos, layout) == push_each(l, pos, layout.elements)

\* elements are opaque; positions and offsets are a few grid points
Elements == {"text", "shape"}
Positions == {Point_new(0, 0), Point_new(1, 8 * One)}
Offsets == {Point_new(0, 0), Point_new(10 * One, -3)}
LayoutDims == {Dim_new(0, 0, 0), S1Dim}
Layouts ==
    {[dim |-> d, elements |-> e] :
        d \in LayoutDims,
        e \in UNION {[1..n -> Positions \X Elements] : n \in 0..MaxElems}}

InitLayout ==
    /\ \E d \in LayoutDims : lay = Layout_new(d)
    /\ layPre = lay
    /\ layLast = [op |-> "new"]
    /\ AreasIdle
    /\ AreaIdle
    /\ HistIdle
    /\ DrvIdle

CallPush ==
    /\ Len(lay.elements) < MaxLen
    /\ \E pos \in Offsets, element \in Elements :
          /\ lay' = push(lay, pos, element)
          /\ layLast' = [op |-> "push", pos |-> pos, element |-> element]
    /\ layPre' = lay
    /\ UNCHANGED <<areasVars, areaVars, histVars, drvVars>>

CallPushLayout ==
    \E pos \in Offsets, layout \in Layouts :
        /\ Len(lay.elements) + Len(layout.elements) <= MaxLen
        /\ lay' = push_layout(lay, pos, layout)
        /\ layLast' = [op |-> "push_layout", pos |-> pos, layout |-> layout]
        /\ layPre' = lay
        /\ UNCHANGED <<areasVars, areaVars, histVars, drvVars>>

NextLayout == CallPush \/ CallPushLayout
SpecLayout == InitLayout /\ [][NextLayout]_vars

\* C10: push_layout(p, L) on a layout A keeps A's elements as an unchanged prefix,
\* appends L's elements after them in L's order with positions translated by p,
\* as one push(p + e.pos, e.elem) per element would, and leaves A.dim unchanged.
C10_EmbeddingLaw ==
    layLast.op = "push_layout" =>
        LET p == layLast.pos
            els == layLast.layout.elements
        IN  /\ lay.elements =
                  layPre.elements \o
                  [i \in 1..Len(els) |->
                      <<[x |-> p.x + els[i][1].x, y |-> p.y + els[i][1].y], els[i][2]>>]
            /\ lay.dim = layPre.dim
\* two different elements embedded at a non-zero offset into a non-empty layout
\* of another dim
C10_Witness ==
    /\ layLast.op = "push_layout"
    /\ layLast.pos # Point_new(0, 0)
    /\ Len(layPre.elements) >= 1
    /\ Len(layLast.layout.elements) = 2
    /\ layLast.layout.elements[1] # layLast.layout.elements[2]
    /\ layLast.layout.dim # layPre.dim
    /\ Len(lay.elements) = Len(layPre.elements) + 2

\* ----------------------------------------------------------------- driver
\* SyntaxNode: text, and the kinds the match in layout() has no arm for
Texts == {<<"H", "i">>, <<"x">>}
Nodes ==
    {[kind |-> "Text", text |-> t] : t \in Texts} \cup
    {[kind |-> "Space"], [kind |-> "Parbreak"], [kind |-> "Call"]}
Trees == UNION {[1..n -> Nodes] : n \in 0..MaxNodes}

\* shape(): one layout per text; the fixed-width font of the scenarios
\* (advance 5, ascender 8, descender 2)
shape(text) ==
    [dim |-> Dim_new(Len(text) * 5 * One, 8 * One, 2 * One),
     elements |-> <<<<Point_new(0, 0), text>>>>]

\* SharedFontLoader::borrow_mut by invocation i: refused while the loader is borrowed
borrow_mut(b, i) ==
    IF b # 0 THEN [panic |-> TRUE, borrowed |-> b] ELSE [panic |-> FALSE, borrowed |-> i]

\* StackLayouter::layout_item and finish, as far as the driver sees them: the items
\* received in order, and the finished layouts (the stacking itself is not followed)
StackLayouter_new == <<>>
layout_item(stack, item) == Append(stack, item)
RECURSIVE finish(_)
finish(stack) ==
    IF stack = <<>>
    THEN <<>>
    ELSE (IF Head(stack).kind = "Layout" THEN <<Head(stack).layout>> ELSE <<>>)
         \o finish(Tail(stack))
\* Pass::ok: the output with no feedback
Pass_ok(output) == [output |-> output, feedback |-> <<>>]

\* faults of the match on node.v: an item for every node kind; the wrong alignment
item_of_all(node) ==
    CASE node.kind = "Text" ->
            Some([kind |-> "Layout", align |-> "Start", layout |-> shape(node.text)])
      [] node.kind = "Space" -> Some([kind |-> "Space"])
      [] node.kind = "Parbreak" -> Some([kind |-> "Parbreak"])
      [] OTHER -> None
item_of_end(node) ==
    IF node.kind = "Text"
    THEN Some([kind |-> "Layout", align |-> "End", layout |-> shape(node.text)])
    ELSE None

\* the match on node.v: Text becomes Layout(Start, shaped), every other node is
\* skipped by `continue`
item_of(node) ==
    IF node.kind = "Text"
    THEN Some([kind |-> "Layout", align |-> "Start", layout |-> shape(node.text)])
    ELSE None

\* fault of `continue`: the loop does not move on
continue_stay(k) == k
\* `continue`: on to the next node
continue(k) == k + 1

\* fault of the loader guard: borrowed for one shape call only
guard_per_shape(i) == 0
\* the loader guard of invocation i after a shape call: still held, it lives until
\* layout() returns
guard(i) == i

InitDriver(T) ==
    /\ tree \in T
    /\ borrowed = 0
    /\ pc = [i \in Invs |-> "idle"]
    /\ idx = [i \in Invs |-> 1]
    /\ loads = [i \in Invs |-> 0]
    /\ items = [i \in Invs |-> <<>>]
    /\ finished = [i \in Invs |-> <<>>]
    /\ result = [i \in Invs |-> None]
    /\ AreasIdle /\ AreaIdle /\ LayIdle /\ HistIdle

\* layout() is entered: the loader is borrowed, the area supply and the stack
\* layouter are built
Start(i) ==
    /\ pc[i] = "idle"
    /\ LET b == borrow_mut(borrowed, i)
       IN  /\ borrowed' = b.borrowed
           /\ pc' = [pc EXCEPT ![i] = IF b.panic THEN "panicked" ELSE "loop"]
    /\ items' = [items EXCEPT ![i] = StackLayouter_new]
    /\ UNCHANGED <<tree, idx, loads, finished, result, areasVars, areaVars, layVars, histVars>>

\* the loop takes its next node: a text node calls shape(), any other node runs
\* the match without suspending
Examine(i) ==
    /\ pc[i] = "loop"
    /\ idx[i] <= Len(tree)
    /\ LET node == tree[idx[i]]
           item == item_of(node)
       IN  IF node.kind = "Text"
           THEN /\ pc' = [pc EXCEPT ![i] = "shaping"]
                /\ loads' = [loads EXCEPT ![i] = 0]
                /\ UNCHANGED <<idx, items>>
           ELSE IF item.some
                THEN /\ items' = [items EXCEPT ![i] = layout_item(@, item.val)]
                     /\ idx' = [idx EXCEPT ![i] = @ + 1]
                     /\ UNCHANGED <<pc, loads>>
                ELSE /\ idx' = [idx EXCEPT ![i] = continue(@)]
                     /\ UNCHANGED <<pc, loads, items>>
    /\ UNCHANGED <<tree, borrowed, finished, result, areasVars, areaVars, layVars, histVars>>

\* the shaper suspends on a font load
Suspend(i) ==
    /\ pc[i] = "shaping"
    /\ loads[i] < MaxLoads
    /\ pc' = [pc EXCEPT ![i] = "loading"]
    /\ loads' = [loads EXCEPT ![i] = @ + 1]
    /\ UNCHANGED <<tree, borrowed, idx, items, finished, result,
                   areasVars, areaVars, layVars, histVars>>

\* the font load completes and the shaper resumes
LoadDone(i) ==
    /\ pc[i] = "loading"
    /\ pc' = [pc EXCEPT ![i] = "shaping"]
    /\ UNCHANGED <<tree, borrowed, idx, loads, items, finished, result,
                   areasVars, areaVars, layVars, histVars>>

\* shape() returns; the item is built and passed to stack.layout_item
ShapeDone(i) ==
    /\ pc[i] = "shaping"
    /\ LET item == item_of(tree[idx[i]])
       IN  items' = [items EXCEPT ![i] = IF item.some THEN layout_item(@, item.val) ELSE @]
    /\ idx' = [idx EXCEPT ![i] = @ + 1]
    /\ borrowed' = guard(i)
    /\ pc' = [pc EXCEPT ![i] = "loop"]
    /\ UNCHANGED <<tree, loads, finished, result, areasVars, areaVars, layVars, histVars>>

\* the loop is over: Pass::ok(stack.finish()) is returned and the loader guard dropped
Return(i) ==
    /\ pc[i] = "loop"
    /\ idx[i] > Len(tree)
    /\ finished' = [finished EXCEPT ![i] = Append(@, Len(items[i]))]
    /\ result' = [result EXCEPT ![i] = Some(Pass_ok(finish(items[i])))]
    /\ borrowed' = 0
    /\ pc' = [pc EXCEPT ![i] = "done"]
    /\ UNCHANGED <<tree, idx, loads, items, areasVars, areaVars, layVars, histVars>>

\* one invocation, polled until it returns, whose font loads complete
NextDriver == Start(1) \/ Examine(1) \/ Suspend(1) \/ LoadDone(1) \/ ShapeDone(1) \/ Return(1)
SpecDriver ==
    /\ InitDriver(Trees)
    /\ [][NextDriver]_vars
    /\ WF_vars(Start(1) \/ Examine(1) \/ ShapeDone(1) \/ Return(1))
    /\ WF_vars(LoadDone(1))

\* the nodes of the tree that are text, space or paragraph break, in order
IsItemNode(n) == n.kind \in {"Text", "Space", "Parbreak"}
\* the item the spec's driver emits for such a node
ItemFor(n) ==
    CASE n.kind = "Text" ->
            [kind |-> "Layout", align |-> "Start", layout |-> shape(n.text)]
      [] n.kind = "Space" -> [kind |-> "Space"]
      [] n.kind = "Parbreak" -> [kind |-> "Parbreak"]

\* C11: the driver passes a Space item for every space node and a Parbreak item
\* for every paragraph-break node: the items the stack layouter received hold one
\* item per text, space and paragraph-break node of the tree.
C11_ItemPerNode ==
    pc[1] = "done" =>
        LET ns == SelectSeq(tree, IsItemNode)
        IN  items[1] = [k \in 1..Len(ns) |-> ItemFor(ns[k])]

IsText(n) == n.kind = "Text"
NotText(n) == n.kind # "Text"

\* C12: for every node the driver does not convert into an item it passes no item
\* to the stack layouter and records a feedback entry: the feedback of the returned
\* Pass holds one entry per skipped node.
C12_FeedbackPerSkipped ==
    pc[1] = "done" =>
        /\ Len(items[1]) = Len(SelectSeq(tree, IsText))
        /\ Len(result[1].val.feedback) = Len(SelectSeq(tree, NotText))

NextShared ==
    \E i \in Invs :
        Start(i) \/ Examine(i) \/ Suspend(i) \/ LoadDone(i) \/ ShapeDone(i) \/ Return(i)
SpecShared == InitDriver(Trees) /\ [][NextShared]_vars

Active == {"loop", "shaping", "loading"}

\* C14: of two invocations sharing one loader, never both hold the loader or shape
\* at once: an invocation holds it from its start until it returns, also while
\* suspended in a font load, and one that starts meanwhile aborts at the
\* acquisition without proceeding.
C14_LoaderExclusive ==
    /\ \A i \in Invs : pc[i] \in Active => borrowed = i
    /\ \A i, j \in Invs : (i # j /\ pc[i] \in Active) => pc[j] \notin Active
    /\ \A i \in Invs :
          pc[i] = "panicked" => (items[i] = <<>> /\ idx[i] = 1 /\ ~result[i].some)
    /\ (\A i \in Invs : pc[i] \notin Active) => borrowed = 0
\* the second invocation aborted while the first is suspended in a font load
\* after its first item
C14_Witness ==
    /\ pc[1] = "loading" /\ Len(items[1]) = 1 /\ borrowed = 1
    /\ pc[2] = "panicked"

\* C15: text nodes are handled one after another in document order: the k-th
\* layout_item call carries Layout(Start, shaped) of the k-th text node, a node's
\* item is passed before the next node is examined, and at most one shape call
\* is in flight.
C15_DocumentOrder ==
    LET seen == SubSeq(tree, 1, Min(idx[1] - 1, Len(tree)))
        texts == SelectSeq(seen, IsText)
    IN  /\ items[1] =
              [k \in 1..Len(texts) |->
                  [kind |-> "Layout", align |-> "Start", layout |-> shape(texts[k].text)]]
        /\ pc[1] \in {"shaping", "loading"} =>
              /\ idx[1] <= Len(tree)
              /\ tree[idx[1]].kind = "Text"
        /\ idx[1] <= Len(tree) + 1
\* the second text of a tree is being shaped with exactly the first one delivered
C15_Witness ==
    /\ pc[1] = "loading" /\ idx[1] = 3
    /\ IsText(tree[1]) /\ NotText(tree[2]) /\ IsText(tree[3]) /\ tree[1] # tree[3]
    /\ Len(items[1]) = 1 /\ items[1][1].layout = shape(tree[1].text)

\* ------------------------------------------------- a supply and its areas
\* supplies of one or two areas
SpillSupplies ==
    UNION {[1..n -> {layout_area(S1Page), layout_area(Page(MaxPage, MaxPage, 0))}] :
              n \in 1..2}

InitSpill ==
    /\ \E v \in SpillSupplies, o \in Overflows :
          LET s == Areas_new(v, o)
          IN  vec = s.vec /\ overflow = s.overflow /\ vec0 = v
    /\ returned = <<>>
    \* no area has been returned yet: nothing to shrink
    /\ area = IdleArea /\ area0 = IdleArea /\ pre = IdleArea
    /\ last = IdleLast /\ committed = 0 /\ nops = MaxOps
    /\ LayIdle /\ HistIdle /\ DrvIdle

\* next() is called and the area it returns, if any, becomes the one worked on
TakeNext ==
    /\ Len(returned) < MaxTakes
    /\ LET r == next(vec, overflow)
       IN  /\ vec' = r.vec
           /\ returned' = Append(returned, r.ret)
           /\ area' = IF r.ret.some THEN r.ret.val ELSE area
           /\ area0' = IF r.ret.some THEN r.ret.val ELSE area0
           /\ last' = [op |-> "next", res |-> r.ret]
    /\ pre' = area
    /\ nops' = 0
    /\ UNCHANGED <<overflow, vec0, committed, layVars, histVars, drvVars>>

NextSpill == TakeNext \/ CallShrinkBy({1}) \/ CallShrinkTo({50 * One})
SpecSpill == InitSpill /\ [][NextSpill]_vars

\* C16: when one area remains under Spill, next() leaves the supply unchanged and
\* returns an independent copy: whatever shrink_by / shrink_to calls were applied
\* to an area returned earlier, a later next() returns the area originally stored.
C16_SpillCloneIndependent ==
    (overflow = "Spill") =>
        LET n == Len(vec0)
        IN  /\ \A k \in n..Len(returned) : returned[k] = Some(vec0[n])
            /\ Len(returned) >= n - 1 => vec = <<vec0[n]>>
            /\ (last.op = "next" /\ Len(returned) >= n) => area = vec0[n]
\* the copy returned first was shrunk, and next() returned the stored area again
C16_Witness ==
    /\ overflow = "Spill" /\ Len(vec0) = 1 /\ Len(returned) >= 2
    /\ last.op = "next"
    /\ pre # vec0[1] /\ pre.size = vec0[1].size
    /\ pre.usable.y0 > vec0[1].usable.y0
    /\ area = vec0[1] /\ vec = vec0

\* ------------------------------------------------ shrink_by, step by step
\* a page so large that the lengths around its usable rectangle are spaced two
\* ticks apart
BigPage ==
    [size |-> Size_new(2 * Mant, 2 * Mant),
     margins |-> [left |-> Mant, top |-> Mant, right |-> Mant - 8, bottom |-> Mant - 8]]
\* amounts that are not negative
NonNegBys == (0..MaxBy) \cup {Far}

\* shrink_by, with the operation before it kept
ShrinkBySeq == ShrinkByStep(NonNegBys) /\ lastPrev' = last /\ UNCHANGED memo

InitShrinkBy == InitArea(PageAreas \cup {layout_area(BigPage)})
NextShrinkBy == ShrinkBySeq
SpecShrinkBy == InitShrinkBy /\ [][NextShrinkBy]_vars

\* the edge of a rectangle that a side names, and the others
Edge(r, side) ==
    CASE side = "Left" -> r.x0 [] side = "Right" -> r.x1
      [] side = "Top" -> r.y0 [] side = "Bottom" -> r.y1
\* the opposite edge
Opposite(r, side) ==
    CASE side = "Left" -> r.x1 [] side = "Right" -> r.x0
      [] side = "Top" -> r.y1 [] side = "Bottom" -> r.y0
\* the extent of a rectangle along the axis of a side
Extent(r, side) == IF side \in {"Left", "Right"} THEN r.x1 - r.x0 ELSE r.y1 - r.y0
\* how far the edge named by side lies further inward in r2 than in r1
Inward(r1, r2, side) ==
    IF side \in {"Left", "Top"} THEN Edge(r2, side) - Edge(r1, side)
    ELSE Edge(r1, side) - Edge(r2, side)
\* only the edge named by side differs between the two areas
OnlyEdge(a1, a2, side) ==
    /\ a1.size = a2.size /\ a1.shape = a2.shape
    /\ \A s \in Sides \ {side} : Edge(a1.usable, s) = Edge(a2.usable, s)
\* two shrink_by calls on the same side were the only operations on the area
TwoShrinks ==
    /\ nops = 2 /\ last.op = "shrink_by" /\ lastPrev.op = "shrink_by"
    /\ last.side = lastPrev.side

\* C17 as stated: for by >= 0 shrink_by moves only the named edge, inward by exactly
\* min(by, extent), and shrink_by(a) followed by shrink_by(b) on one side gives
\* the area shrink_by(a + b) gives.
C17_ShrinkByExact ==
    /\ (last.op = "shrink_by" /\ last.by >= 0) =>
          /\ OnlyEdge(pre, area, last.side)
          /\ Inward(pre.usable, area.usable, last.side) =
                Min(last.by, Extent(pre.usable, last.side))
    /\ TwoShrinks =>
          /\ OnlyEdge(area0, area, last.side)
          /\ Inward(area0.usable, area.usable, last.side) =
                Min(lastPrev.by + last.by, Extent(area0.usable, last.side))
\* C17 as amended: for by >= 0 shrink_by moves only the named edge, inward, by at
\* most min(by, extent) plus the rounding of one f64 sum and never past the
\* opposite edge, and by exactly min(by, extent) when that sum is exact; two
\* calls on one side give the area of one call with a + b when no sum is rounded.
C17_ShrinkByRounded ==
    /\ (last.op = "shrink_by" /\ last.by >= 0) =>
          LET e == Edge(pre.usable, last.side)
              sum == IF last.side \in {"Left", "Top"} THEN e + last.by ELSE e - last.by
              moved == Inward(pre.usable, area.usable, last.side)
          IN  /\ OnlyEdge(pre, area, last.side)
              /\ moved >= 0
              /\ moved <= Extent(pre.usable, last.side)
              /\ Abs(moved - Min(last.by, Extent(pre.usable, last.side))) <= Ulp(Abs(sum)) \div 2
              /\ fl(sum) = sum =>
                    moved = Min(last.by, Extent(pre.usable, last.side))
    /\ TwoShrinks =>
          LET e == Edge(area0.usable, last.side)
              sgn == IF last.side \in {"Left", "Top"} THEN 1 ELSE -1
              exact == /\ fl(e + sgn * lastPrev.by) = e + sgn * lastPrev.by
                       /\ fl(e + sgn * (lastPrev.by + last.by)) =
                             e + sgn * (lastPrev.by + last.by)
                       /\ fl(lastPrev.by + last.by) = lastPrev.by + last.by
          IN  /\ OnlyEdge(area0, area, last.side)
              /\ exact =>
                    Inward(area0.usable, area.usable, last.side) =
                       Min(lastPrev.by + last.by, Extent(area0.usable, last.side))
\* two shrinks by one tick each from the left of the scenario page
C17_Witness ==
    /\ TwoShrinks /\ last.side = "Left" /\ last.by = 1 /\ lastPrev.by = 1
    /\ area0 = layout_area(S1Page)
    /\ area.usable.x0 = area0.usable.x0 + 2

\* ------------------------------------------- fitting, before and after shrinking
\* dimensions asked for: around the small pages, and the scenario's line
FitDims ==
    {Dim_new(w, h, d) : w \in {1, MaxPage + 1}, h \in {1, MaxPage + 1}, d \in 0..1}
       \cup {S1Dim}

\* place(dim, Top), remembered with the area it was asked of
FirstPlace ==
    /\ memo = None
    /\ \E dim \in FitDims :
          LET r == place(area, dim, "Top")
          IN  /\ memo' = Some([dim |-> dim, res |-> r, area |-> area])
              /\ last' = [op |-> "place", dim |-> dim, side |-> "Top", res |-> r]
    /\ pre' = area
    /\ UNCHANGED <<area, area0, committed, nops, lastPrev, areasVars, layVars, drvVars>>
\* a later place(dim, Top)
LaterPlace ==
    /\ memo # None
    /\ \E dim \in FitDims :
          last' = [op |-> "place", dim |-> dim, side |-> "Top",
                   res |-> place(area, dim, "Top")]
    /\ pre' = area
    /\ UNCHANGED <<area, area0, committed, nops, histVars, areasVars, layVars, drvVars>>

InitFit == InitArea(PageAreas \cup {layout_area(BigPage)})
NextFit == FirstPlace \/ LaterPlace \/ CallShrinkBy({1, MaxBy, Far})
SpecFit == InitFit /\ [][NextFit]_vars

\* the last operation was a place(dim, Top) later than the remembered one
PlacedLater == memo # None /\ last.op = "place" /\ last.side = "Top"
\* C18: once place(dim, Top) has returned none on an area, place(dim, Top) returns
\* none after any shrink_by calls with by >= 0; and where place(dim, Top) succeeds,
\* place succeeds on the same area for every dim' that is no wider and no taller.
C18_NotFittingPermanent ==
    PlacedLater =>
       /\ (memo.val.res = Returned(None) /\ last.dim = memo.val.dim) =>
             last.res = Returned(None)
       /\ (/\ memo.val.res # Returned(None)
           /\ memo.val.area = pre
           /\ last.dim.width <= memo.val.dim.width
           /\ last.dim.height + last.dim.depth <=
                 memo.val.dim.height + memo.val.dim.depth) =>
             (last.res # Panicked /\ last.res.ret # None)
\* a dimension that did not fit, asked for again after two shrinks
C18_Witness ==
    /\ PlacedLater /\ nops = 2
    /\ memo.val.res = Returned(None) /\ last.dim = memo.val.dim
    /\ area # memo.val.area
    /\ last.res = Returned(None)

====
